---- MODULE Spec2Model ----
(***************************************************************************)
(* Boruvka's minimum spanning tree algorithm and the union-find structure  *)
(* of the boruvkas_algorithm package, together with the stand-alone        *)
(* boruvka.py script that keeps components as a vertex-to-parent map.      *)
(*                                                                         *)
(* Python lists are modelled as functions over 0..n-1 and tuples as        *)
(* sequences.  A call that raises leaves the object as the statements      *)
(* executed before the raise left it.                                      *)
(***************************************************************************)
EXTENDS Integers, Sequences, FiniteSets, TLC

\* Largest UnionFind(size) explored with every argument, in range or not.
MaxSize == 5
\* The UnionFind(size) explored by union calls alone, large enough for trees
\* of depth 3.
DeepSize == 8
\* Largest distance between the two indices that caller unites.
MaxGap == 2

\* Largest Graph(num_vertices) built.
MaxVertices == 4
\* Largest number of edges added to a graph.
MaxEdges == 3
\* Edge weights are drawn from 1..MaxWeight.
MaxWeight == 2
\* Rounds of the while loop explored before the exploration of a run that has
\* not returned is given up.
MaxRounds == 3
\* Calls of run_boruvkas_algorithm made on one graph.
MaxCalls == 2

VARIABLES
    size,       \* UnionFind: len(self.parent)
    parent,     \* UnionFind.parent
    rank,       \* UnionFind.rank
    linked,     \* history: element -> least element joined to it by union calls
    last,       \* history: the outcome of the most recent call
    impl,       \* which Graph class: "package" (src/boruvkas_algorithm/boruvka.py)
                \* or "script" (boruvka.py)
    vertices,   \* Graph.vertices
    edges,      \* Graph.edges
    raised,     \* the exception the most recent Graph call ended with, or "none"
    pc,         \* "build": no run yet; "loop": at the while test;
                \* "connect": in the for loop of connect_components_with_min_edges;
                \* "done": returned
    mst_weight,
    mst_edges,
    component_sizes,
    num_components,
    slot,       \* position of that for loop in the list it iterates
    vertex_to_component,                \* package
    min_connecting_edge_per_component,  \* package
    num_iterations,                     \* package
    components,                         \* script
    min_connecting_edge_per_vertex,     \* script
    iteration_num,                      \* script
    round_start,\* history: num_components when the current round began
    calls       \* history: for each MST call made on the graph, the graph it
                \* was given and, once it has returned, the weight it returned

ufvars == <<size, parent, rank, linked, last>>

graphvars == <<impl, vertices, edges, raised>>

runvars == <<pc, mst_weight, mst_edges, component_sizes, num_components, slot,
             round_start, calls>>

pkgvars == <<vertex_to_component, min_connecting_edge_per_component,
             num_iterations>>

scriptvars == <<components, min_connecting_edge_per_vertex, iteration_num>>

vars == <<ufvars, graphvars, runvars, pkgvars, scriptvars>>

-----------------------------------------------------------------------------
(* Python list indexing *)

\* list[i] is defined for -len <= i < len; anything else raises IndexError.
IndexInRange(n, i) == -n <= i /\ i < n

\* The position list[i] denotes: a negative index counts from the end.
ListIndex(n, i) == IF i < 0 THEN i + n ELSE i

-----------------------------------------------------------------------------
(* UnionFind *)

\* UnionFind.__init__: parent = list(range(size)), rank = [1] * size.
UnionFindInit(n) ==
    [parent |-> [i \in 0..(n - 1) |-> i], rank |-> [i \in 0..(n - 1) |-> 1]]

\* find_loop walking up to the root without relinking anything.
RECURSIVE find_loop_no_compression(_, _)
find_loop_no_compression(p, cur_parent) ==
    IF cur_parent = p[cur_parent]
    THEN [parent |-> p, ret |-> cur_parent]
    ELSE find_loop_no_compression(p, p[cur_parent])

\* find_loop returning the parent of the node without walking up to the root.
find_loop_one_step(p, cur_parent) == [parent |-> p, ret |-> cur_parent]

\* The while loop of find: relink cur_parent to its grandparent, then step up.
RECURSIVE find_loop(_, _)
find_loop(p, cur_parent) ==
    IF cur_parent = p[cur_parent]
    THEN [parent |-> p, ret |-> cur_parent]
    ELSE LET p2 == [p EXCEPT ![cur_parent] = p[p[cur_parent]]]
         IN  find_loop(p2, p2[cur_parent])

\* UnionFind.find(node) on parent array p of length n.  A call that raises
\* returns nothing: ret is then -1.
find(n, p, node) ==
    IF ~IndexInRange(n, node)
    THEN [raised |-> TRUE, parent |-> p, ret |-> -1]
    ELSE LET r == find_loop(p, p[ListIndex(n, node)])
         IN  [raised |-> FALSE, parent |-> r.parent, ret |-> r.ret]

\* union_link counting a rank up by one, as union by rank does, where the
\* code adds the size of the tree attached.
union_link_rank_plus_one(p, r, root1, root2) ==
    IF r[root1] > r[root2]
    THEN [parent |-> [p EXCEPT ![root2] = root1],
          rank   |-> [r EXCEPT ![root1] = r[root1] + 1]]
    ELSE [parent |-> [p EXCEPT ![root1] = root2],
          rank   |-> [r EXCEPT ![root2] = r[root2] + 1]]

\* union_link attaching root2 under root1 also when the two sizes are equal.
union_link_ge(p, r, root1, root2) ==
    IF r[root1] >= r[root2]
    THEN [parent |-> [p EXCEPT ![root2] = root1],
          rank   |-> [r EXCEPT ![root1] = r[root1] + r[root2]]]
    ELSE [parent |-> [p EXCEPT ![root1] = root2],
          rank   |-> [r EXCEPT ![root2] = r[root2] + r[root1]]]

\* The linking step of union, after both finds returned distinct roots.
union_link(p, r, root1, root2) ==
    IF r[root1] > r[root2]
    THEN [parent |-> [p EXCEPT ![root2] = root1],
          rank   |-> [r EXCEPT ![root1] = r[root1] + r[root2]]]
    ELSE [parent |-> [p EXCEPT ![root1] = root2],
          rank   |-> [r EXCEPT ![root2] = r[root2] + r[root1]]]

\* union without the early return for two nodes of one set.
union_unchecked(n, p, r, node1, node2) ==
    LET f1 == find(n, p, node1)
        f2 == find(n, f1.parent, node2)
    IN  IF f1.raised
        THEN [raised |-> TRUE, parent |-> p, rank |-> r, ret |-> FALSE]
        ELSE IF f2.raised
        THEN [raised |-> TRUE, parent |-> f1.parent, rank |-> r, ret |-> FALSE]
        ELSE LET l == union_link(f2.parent, r, f1.ret, f2.ret)
             IN  [raised |-> FALSE, parent |-> l.parent, rank |-> l.rank,
                  ret |-> TRUE]

\* union returning True for two nodes of different sets without linking the
\* two roots.
union_no_link(n, p, r, node1, node2) ==
    LET f1 == find(n, p, node1)
        f2 == find(n, f1.parent, node2)
    IN  IF f1.raised
        THEN [raised |-> TRUE, parent |-> p, rank |-> r, ret |-> FALSE]
        ELSE IF f2.raised
        THEN [raised |-> TRUE, parent |-> f1.parent, rank |-> r, ret |-> FALSE]
        ELSE [raised |-> FALSE, parent |-> f2.parent, rank |-> r,
              ret |-> (f1.ret # f2.ret)]

\* UnionFind.union(node1, node2).
union(n, p, r, node1, node2) ==
    LET f1 == find(n, p, node1)
        f2 == find(n, f1.parent, node2)
    IN  IF f1.raised
        THEN [raised |-> TRUE, parent |-> p, rank |-> r, ret |-> FALSE]
        ELSE IF f2.raised
        THEN [raised |-> TRUE, parent |-> f1.parent, rank |-> r, ret |-> FALSE]
        ELSE IF f1.ret = f2.ret
        THEN [raised |-> FALSE, parent |-> f2.parent, rank |-> r, ret |-> FALSE]
        ELSE LET l == union_link(f2.parent, r, f1.ret, f2.ret)
             IN  [raised |-> FALSE, parent |-> l.parent, rank |-> l.rank,
                  ret |-> TRUE]

\* is_connected comparing the parents of the two nodes, not their roots.
is_connected_parents(n, p, node1, node2) ==
    IF ~IndexInRange(n, node1) \/ ~IndexInRange(n, node2)
    THEN [raised |-> TRUE, parent |-> p, ret |-> FALSE]
    ELSE [raised |-> FALSE, parent |-> p,
          ret |-> (p[ListIndex(n, node1)] = p[ListIndex(n, node2)])]

\* UnionFind.is_connected(node1, node2).
is_connected(n, p, node1, node2) ==
    LET f1 == find(n, p, node1)
        f2 == find(n, f1.parent, node2)
    IN  IF f1.raised
        THEN [raised |-> TRUE, parent |-> p, ret |-> FALSE]
        ELSE IF f2.raised
        THEN [raised |-> TRUE, parent |-> f1.parent, ret |-> FALSE]
        ELSE [raised |-> FALSE, parent |-> f2.parent, ret |-> (f1.ret = f2.ret)]

-----------------------------------------------------------------------------
(* History of the union calls, kept beside the object *)

\* Joining the classes of a and b: everything linked to either takes the
\* smaller label.
Link(lk, a, b) ==
    LET lo == IF lk[a] < lk[b] THEN lk[a] ELSE lk[b]
    IN  [i \in DOMAIN lk |-> IF lk[i] = lk[a] \/ lk[i] = lk[b] THEN lo ELSE lk[i]]

\* The arguments passed to find on a UnionFind(n): every index Python accepts
\* and one beyond each end.  union and is_connected are called with the
\* indices 0..n-1 of their contract.
Args(n) == (-(n + 1))..n

Nodes == 0..(size - 1)

-----------------------------------------------------------------------------
(* Graph: construction, shared by both classes *)

\* None, and the -1 the script stores in an empty slot.
None == <<>>

\* x in list
In(list, x) == \E i \in DOMAIN list : list[i] = x

\* Graph.__init__: vertices = list(range(num_vertices)), edges = [].
GraphInit(num_vertices) ==
    [vertices |-> [i \in 1..num_vertices |-> i - 1], edges |-> <<>>]

\* add_edge checking vertex_1 only.
add_edge_first_only(vs, es, vertex_1, vertex_2, weight) ==
    IF ~In(vs, vertex_1)
    THEN [raised |-> "ValueError", edges |-> es]
    ELSE [raised |-> "none", edges |-> Append(es, <<vertex_1, vertex_2, weight>>)]

\* Graph.add_edge of the package.
add_edge(vs, es, vertex_1, vertex_2, weight) ==
    IF ~In(vs, vertex_1) \/ ~In(vs, vertex_2)
    THEN [raised |-> "ValueError", edges |-> es]
    ELSE [raised |-> "none", edges |-> Append(es, <<vertex_1, vertex_2, weight>>)]

\* Graph.add_edge of the script: vertex not in range(len(self.vertices)).
script_add_edge(vs, es, vertex1, vertex2, weight) ==
    IF ~(0 <= vertex1 /\ vertex1 < Len(vs))
    THEN [raised |-> "ValueError", edges |-> es]
    ELSE IF ~(0 <= vertex2 /\ vertex2 < Len(vs))
    THEN [raised |-> "ValueError", edges |-> es]
    ELSE [raised |-> "none", edges |-> Append(es, <<vertex1, vertex2, weight>>)]

\* No graph exists: the state of the graph variables in the UnionFind
\* specifications.
NoGraph ==
    /\ impl = "none"
    /\ vertices = <<>>
    /\ edges = <<>>
    /\ raised = "none"
    /\ pc = "build"
    /\ mst_weight = 0
    /\ mst_edges = <<>>
    /\ component_sizes = <<>>
    /\ num_components = 0
    /\ slot = 0
    /\ round_start = 0
    /\ calls = <<>>
    /\ vertex_to_component = <<>>
    /\ min_connecting_edge_per_component = <<>>
    /\ num_iterations = 0
    /\ components = <<>>
    /\ min_connecting_edge_per_vertex = <<>>
    /\ iteration_num = 0

\* No UnionFind exists: the state of the UnionFind variables in the Graph
\* specifications.
NoUnionFind ==
    /\ size = 0
    /\ parent = <<>>
    /\ rank = <<>>
    /\ linked = <<>>
    /\ last = [op |-> "init", raised |-> FALSE, ret |-> -1]

-----------------------------------------------------------------------------
(* UnionFind calls *)

InitUF(sizes) ==
    /\ size \in sizes
    /\ parent = UnionFindInit(size).parent
    /\ rank = UnionFindInit(size).rank
    /\ linked = [i \in 0..(size - 1) |-> i]
    /\ last = [op |-> "init", raised |-> FALSE, ret |-> -1]
    /\ NoGraph

Find(node) ==
    LET f == find(size, parent, node)
    IN  /\ parent' = f.parent
        /\ last' = [op |-> "find", raised |-> f.raised, ret |-> f.ret]
        /\ UNCHANGED <<size, rank, linked, graphvars, runvars, pkgvars, scriptvars>>

Union(node1, node2) ==
    LET u == union(size, parent, rank, node1, node2)
    IN  /\ parent' = u.parent
        /\ rank' = u.rank
        /\ linked' = IF u.raised THEN linked
                     ELSE Link(linked, ListIndex(size, node1), ListIndex(size, node2))
        /\ last' = [op |-> "union", raised |-> u.raised,
                    ret |-> IF u.ret THEN 1 ELSE 0]
        /\ UNCHANGED <<size, graphvars, runvars, pkgvars, scriptvars>>

IsConnected(node1, node2) ==
    LET c == is_connected(size, parent, node1, node2)
    IN  /\ parent' = c.parent
        /\ last' = [op |-> "is_connected", raised |-> c.raised,
                    ret |-> IF c.ret THEN 1 ELSE 0]
        /\ UNCHANGED <<size, rank, linked, graphvars, runvars, pkgvars, scriptvars>>

NextUF ==
    \/ \E node \in Args(size) : Find(node)
    \/ \E node1, node2 \in Nodes : Union(node1, node2)
    \/ \E node1, node2 \in Nodes : IsConnected(node1, node2)

SpecUF == InitUF(1..MaxSize) /\ [][NextUF]_vars

\* A caller that only unites, naming the lower index first and two nodes at
\* most MaxGap apart.
NextDeep ==
    \E node1, node2 \in Nodes :
        /\ node1 <= node2 /\ node2 - node1 <= MaxGap
        /\ Union(node1, node2)

SpecDeep == InitUF({DeepSize}) /\ [][NextDeep]_vars

\* Following at most k parent pointers from x ends at an element that is its
\* own parent.
RECURSIVE ReachesRoot(_, _, _)
ReachesRoot(p, x, k) == p[x] = x \/ (k > 0 /\ ReachesRoot(p, p[x], k - 1))

\* The parent arrays of length n in which every chain of pointers ends at a
\* root: those that unions build and those a caller assigns, as the path
\* compression test does with the chain [0, 0, 1, 2, 4].
Forests(n) ==
    {p \in [0..(n - 1) -> 0..(n - 1)] :
        \A x \in 0..(n - 1) : ReachesRoot(p, x, n)}

\* The root of x in a forest of n elements.
RECURSIVE RootWithin(_, _, _)
RootWithin(p, x, k) ==
    IF p[x] = x \/ k = 0 THEN x ELSE RootWithin(p, p[x], k - 1)

\* The least element of the tree of x.
LeastOfTree(p, n, x) ==
    CHOOSE a \in 0..(n - 1) :
        /\ RootWithin(p, a, n) = RootWithin(p, x, n)
        /\ \A b \in 0..(n - 1) :
              RootWithin(p, b, n) = RootWithin(p, x, n) => a <= b

\* A UnionFind whose parent array has been assigned, with the rank the test
\* gives it: the size of its tree for a root and 1 elsewhere.
InitAssigned(sizes) ==
    /\ size \in sizes
    /\ parent \in Forests(size)
    /\ rank = [i \in 0..(size - 1) |->
                  IF parent[i] = i
                  THEN Cardinality({x \in 0..(size - 1) :
                                       RootWithin(parent, x, size) = i})
                  ELSE 1]
    /\ linked = [i \in 0..(size - 1) |-> LeastOfTree(parent, size, i)]
    /\ last = [op |-> "init", raised |-> FALSE, ret |-> -1]
    /\ NoGraph

\* A caller that only calls find, on the elements of the structure.
NextFind == \E node \in Nodes : Find(node)

SpecFind == InitAssigned(1..MaxSize) /\ [][NextFind]_vars

-----------------------------------------------------------------------------
(* Graph of the package: Boruvka's algorithm over a vertex -> component map *)

\* The set of vertices of a vertex list.
VertexSet(vs) == {vs[i] : i \in DOMAIN vs}

\* initialize_components keeping the component count the previous call on
\* the object ended with.
initialize_components_stale_count(vs) ==
    [vertex_to_component |-> [v \in VertexSet(vs) |-> v],
     component_sizes     |-> [c \in 0..(Len(vs) - 1) |-> 1],
     num_components      |-> IF pc = "done" THEN num_components ELSE Len(vs)]

\* Graph.initialize_components.
initialize_components(vs) ==
    [vertex_to_component |-> [v \in VertexSet(vs) |-> v],
     component_sizes     |-> [c \in 0..(Len(vs) - 1) |-> 1],
     num_components      |-> Len(vs)]

\* merge_components counting the merged component as one more vertex.
merge_components_counts_one(vtc, sizes, vertex_1, vertex_2) ==
    LET component_1 == vtc[vertex_1]
        component_2 == vtc[vertex_2]
        smaller == IF sizes[component_1] < sizes[component_2]
                   THEN component_1 ELSE component_2
        larger  == IF sizes[component_1] < sizes[component_2]
                   THEN component_2 ELSE component_1
    IN  [vertex_to_component |->
             [v \in DOMAIN vtc |-> IF vtc[v] = smaller THEN larger ELSE vtc[v]],
         component_sizes |-> [sizes EXCEPT ![larger] = sizes[larger] + 1]]

\* Graph.merge_components: relabel the smaller component as the larger one.
merge_components(vtc, sizes, vertex_1, vertex_2) ==
    LET component_1 == vtc[vertex_1]
        component_2 == vtc[vertex_2]
        smaller == IF sizes[component_1] < sizes[component_2]
                   THEN component_1 ELSE component_2
        larger  == IF sizes[component_1] < sizes[component_2]
                   THEN component_2 ELSE component_1
    IN  [vertex_to_component |->
             [v \in DOMAIN vtc |-> IF vtc[v] = smaller THEN larger ELSE vtc[v]],
         component_sizes |->
             [sizes EXCEPT ![larger] = sizes[larger] + sizes[smaller]]]

\* update_min_edge keeping the heavier edge.
update_min_edge_heaviest(vtc, min_edge, edge) ==
    LET c1 == vtc[edge[1]]
        c2 == vtc[edge[2]]
        m1 == IF min_edge[c1] = None \/ edge[3] > min_edge[c1][3]
              THEN [min_edge EXCEPT ![c1] = edge] ELSE min_edge
        m2 == IF m1[c2] = None \/ edge[3] > m1[c2][3]
              THEN [m1 EXCEPT ![c2] = edge] ELSE m1
    IN  IF c1 # c2 THEN m2 ELSE min_edge

\* update_min_edge looking at the component of vertex_1 only.
update_min_edge_first_only(vtc, min_edge, edge) ==
    LET c1 == vtc[edge[1]]
        c2 == vtc[edge[2]]
        m1 == IF min_edge[c1] = None \/ edge[3] < min_edge[c1][3]
              THEN [min_edge EXCEPT ![c1] = edge] ELSE min_edge
    IN  IF c1 # c2 THEN m1 ELSE min_edge

\* update_min_edge letting an edge of equal weight take a slot.
update_min_edge_last_seen(vtc, min_edge, edge) ==
    LET c1 == vtc[edge[1]]
        c2 == vtc[edge[2]]
        m1 == IF min_edge[c1] = None \/ edge[3] <= min_edge[c1][3]
              THEN [min_edge EXCEPT ![c1] = edge] ELSE min_edge
        m2 == IF m1[c2] = None \/ edge[3] <= m1[c2][3]
              THEN [m1 EXCEPT ![c2] = edge] ELSE m1
    IN  IF c1 # c2 THEN m2 ELSE min_edge

\* update_min_edge without the test that the edge joins two components.
update_min_edge_any_edge(vtc, min_edge, edge) ==
    LET c1 == vtc[edge[1]]
        c2 == vtc[edge[2]]
        m1 == IF min_edge[c1] = None \/ edge[3] < min_edge[c1][3]
              THEN [min_edge EXCEPT ![c1] = edge] ELSE min_edge
        m2 == IF m1[c2] = None \/ edge[3] < m1[c2][3]
              THEN [m1 EXCEPT ![c2] = edge] ELSE m1
    IN  m2

\* The body of the for loop of update_min_edge_per_component, for one edge.
update_min_edge(vtc, min_edge, edge) ==
    LET vertex_1_component == vtc[edge[1]]
        vertex_2_component == vtc[edge[2]]
        m1 == IF min_edge[vertex_1_component] = None
                 \/ edge[3] < min_edge[vertex_1_component][3]
              THEN [min_edge EXCEPT ![vertex_1_component] = edge]
              ELSE min_edge
        m2 == IF m1[vertex_2_component] = None
                 \/ edge[3] < m1[vertex_2_component][3]
              THEN [m1 EXCEPT ![vertex_2_component] = edge]
              ELSE m1
    IN  IF vertex_1_component # vertex_2_component THEN m2 ELSE min_edge

\* Graph.update_min_edge_per_component: the edges from position i on, in order.
RECURSIVE update_min_edge_per_component(_, _, _, _)
update_min_edge_per_component(es, i, vtc, min_edge) ==
    IF i > Len(es) THEN min_edge
    ELSE update_min_edge_per_component(es, i + 1, vtc,
                                       update_min_edge(vtc, min_edge, es[i]))

\* connect_edge without the test that the two endpoints are still in
\* different components.
connect_edge_unchecked(edge, vtc, sizes, medges, mweight, ncomp) ==
    IF edge # None
    THEN LET m == merge_components(vtc, sizes, edge[1], edge[2])
         IN  [mst_edges |-> Append(medges, edge),
              mst_weight |-> mweight + edge[3],
              vertex_to_component |-> m.vertex_to_component,
              component_sizes |-> m.component_sizes,
              num_components |-> ncomp - 1]
    ELSE [mst_edges |-> medges, mst_weight |-> mweight,
          vertex_to_component |-> vtc,
          component_sizes |-> sizes, num_components |-> ncomp]

\* connect_edge adding the weight of an edge whether or not it is used.
connect_edge_always_weighs(edge, vtc, sizes, medges, mweight, ncomp) ==
    IF edge # None /\ vtc[edge[1]] # vtc[edge[2]]
    THEN LET m == merge_components(vtc, sizes, edge[1], edge[2])
         IN  [mst_edges |-> Append(medges, edge),
              mst_weight |-> mweight + edge[3],
              vertex_to_component |-> m.vertex_to_component,
              component_sizes |-> m.component_sizes,
              num_components |-> ncomp - 1]
    ELSE [mst_edges |-> medges,
          mst_weight |-> IF edge # None THEN mweight + edge[3] ELSE mweight,
          vertex_to_component |-> vtc,
          component_sizes |-> sizes, num_components |-> ncomp]

\* The body of the for loop of connect_components_with_min_edges, for one
\* entry of min_connecting_edge_per_component.
connect_edge(edge, vtc, sizes, medges, mweight, ncomp) ==
    IF edge # None /\ vtc[edge[1]] # vtc[edge[2]]
    THEN LET m == merge_components(vtc, sizes, edge[1], edge[2])
         IN  [mst_edges |-> Append(medges, edge),
              mst_weight |-> mweight + edge[3],
              vertex_to_component |-> m.vertex_to_component,
              component_sizes |-> m.component_sizes,
              num_components |-> ncomp - 1]
    ELSE [mst_edges |-> medges, mst_weight |-> mweight,
          vertex_to_component |-> vtc,
          component_sizes |-> sizes, num_components |-> ncomp]

\* Graph.connect_components_with_min_edges: the entries of
\* min_connecting_edge_per_component from position i on, in order.  st holds
\* mst_edges, mst_weight, vertex_to_component, component_sizes and
\* num_components.
RECURSIVE connect_components_with_min_edges(_, _, _)
connect_components_with_min_edges(min_edge, i, st) ==
    IF i \notin DOMAIN min_edge THEN st
    ELSE connect_components_with_min_edges(
             min_edge, i + 1,
             connect_edge(min_edge[i], st.vertex_to_component,
                          st.component_sizes, st.mst_edges, st.mst_weight,
                          st.num_components))

\* Graph.perform_iteration: phase A on fresh slots, then phase B.
perform_iteration(vs, es, st) ==
    connect_components_with_min_edges(
        update_min_edge_per_component(es, 1, st.vertex_to_component,
                                      [c \in 0..(Len(vs) - 1) |-> None]),
        0, st)

\* The while loop of run_boruvkas_algorithm.  A call still looping after
\* MaxRounds rounds is followed no further: returned is then FALSE.
RECURSIVE run_loop(_, _, _, _)
run_loop(vs, es, st, iterations) ==
    IF ~(st.num_components > 1)
    THEN [returned |-> TRUE, mst_weight |-> st.mst_weight,
          mst_edges |-> st.mst_edges, num_iterations |-> iterations]
    ELSE IF iterations >= MaxRounds
    THEN [returned |-> FALSE, mst_weight |-> st.mst_weight,
          mst_edges |-> st.mst_edges, num_iterations |-> iterations]
    ELSE run_loop(vs, es, perform_iteration(vs, es, st), iterations + 1)

\* Graph.run_boruvkas_algorithm as one call on the vertex list vs and the
\* edge list es.
run_boruvkas_algorithm(vs, es) ==
    LET c == initialize_components(vs)
    IN  run_loop(vs, es,
                 [mst_edges |-> <<>>, mst_weight |-> 0,
                  vertex_to_component |-> c.vertex_to_component,
                  component_sizes |-> c.component_sizes,
                  num_components |-> c.num_components],
                 0)

\* The vertices a caller names: every vertex, -1 and one past the last.
VertexArgs == (-1)..Len(vertices)

Weights == 1..MaxWeight

\* Graph(num_vertices) of the given class, with no edge yet.
InitGraph(class, counts) ==
    /\ impl = class
    /\ \E n \in counts : vertices = GraphInit(n).vertices
    /\ edges = <<>>
    /\ raised = "none"
    /\ pc = "build"
    /\ mst_weight = 0
    /\ mst_edges = <<>>
    /\ component_sizes = <<>>
    /\ num_components = 0
    /\ slot = 0
    /\ round_start = 0
    /\ calls = <<>>
    /\ vertex_to_component = <<>>
    /\ min_connecting_edge_per_component = <<>>
    /\ num_iterations = 0
    /\ components = <<>>
    /\ min_connecting_edge_per_vertex = <<>>
    /\ iteration_num = 0
    /\ NoUnionFind

\* History: a call begins on the graph as it is now.
CallBegins ==
    calls' = Append(calls, [vertices |-> vertices, edges |-> edges,
                            returned |-> FALSE, mst_weight |-> 0])

\* History: the call in progress returns the weight w.
CallReturns(w) ==
    calls' = [calls EXCEPT ![Len(calls)] =
                  [@ EXCEPT !.returned = TRUE, !.mst_weight = w]]

\* graph.add_edge(vertex_1, vertex_2, weight) on a package Graph.
AddEdge(vertex_1, vertex_2, weight) ==
    /\ impl = "package" /\ pc = "build"
    /\ Len(edges) < MaxEdges
    /\ LET r == add_edge(vertices, edges, vertex_1, vertex_2, weight)
       IN  /\ edges' = r.edges
           /\ raised' = r.raised
    /\ UNCHANGED <<impl, vertices, runvars, pkgvars, scriptvars, ufvars>>

\* run_boruvkas_algorithm up to the while loop (lines 265-273): every local
\* of the call is set afresh.
EnterRun ==
    /\ LET c == initialize_components(vertices)
       IN  /\ vertex_to_component' = c.vertex_to_component
           /\ component_sizes' = c.component_sizes
           /\ num_components' = c.num_components
           /\ round_start' = c.num_components
    /\ mst_weight' = 0
    /\ mst_edges' = <<>>
    /\ num_iterations' = 0
    /\ raised' = "none"
    /\ pc' = "loop"
    /\ CallBegins
    /\ UNCHANGED <<impl, vertices, edges, slot,
                   min_connecting_edge_per_component, scriptvars, ufvars>>

\* The first call of run_boruvkas_algorithm on the graph.
RunBoruvkasAlgorithm ==
    /\ impl = "package" /\ pc = "build"
    /\ EnterRun

\* A further call on the same Graph object, with no add_edge since the
\* previous call returned.
RunAgain ==
    /\ impl = "package" /\ pc = "done"
    /\ Len(calls) < MaxCalls
    /\ EnterRun

\* One more round: the while test holds, and perform_iteration runs up to
\* its call of connect_components_with_min_edges.
PerformIteration ==
    /\ impl = "package" /\ pc = "loop"
    /\ num_components > 1
    /\ num_iterations < MaxRounds
    /\ num_iterations' = num_iterations + 1
    /\ min_connecting_edge_per_component' =
           update_min_edge_per_component(
               edges, 1, vertex_to_component,
               [c \in 0..(Len(vertices) - 1) |-> None])
    /\ slot' = 0
    /\ round_start' = num_components
    /\ pc' = "connect"
    /\ UNCHANGED <<graphvars, mst_weight, mst_edges, component_sizes,
                   num_components, vertex_to_component, calls, scriptvars,
                   ufvars>>

\* One pass of the for loop of connect_components_with_min_edges.
ConnectEdge ==
    /\ impl = "package" /\ pc = "connect"
    /\ slot < Len(vertices)
    /\ LET r == connect_edge(min_connecting_edge_per_component[slot],
                             vertex_to_component, component_sizes,
                             mst_edges, mst_weight, num_components)
       IN  /\ mst_edges' = r.mst_edges
           /\ mst_weight' = r.mst_weight
           /\ vertex_to_component' = r.vertex_to_component
           /\ component_sizes' = r.component_sizes
           /\ num_components' = r.num_components
    /\ slot' = slot + 1
    /\ UNCHANGED <<graphvars, pc, round_start, calls,
                   min_connecting_edge_per_component, num_iterations,
                   scriptvars, ufvars>>

\* The for loop is exhausted: connect_components_with_min_edges and
\* perform_iteration return, back to the while test.
EndIteration ==
    /\ impl = "package" /\ pc = "connect"
    /\ slot = Len(vertices)
    /\ pc' = "loop"
    /\ UNCHANGED <<graphvars, mst_weight, mst_edges, component_sizes,
                   num_components, slot, round_start, calls, pkgvars,
                   scriptvars, ufvars>>

\* The while test fails: run_boruvkas_algorithm returns
\* (mst_weight, mst_edges).
Return ==
    /\ impl = "package" /\ pc = "loop"
    /\ ~(num_components > 1)
    /\ pc' = "done"
    /\ CallReturns(mst_weight)
    /\ UNCHANGED <<graphvars, mst_weight, mst_edges, component_sizes,
                   num_components, slot, round_start, pkgvars, scriptvars,
                   ufvars>>

NextMST ==
    \/ \E vertex_1, vertex_2 \in VertexArgs, weight \in Weights :
           AddEdge(vertex_1, vertex_2, weight)
    \/ RunBoruvkasAlgorithm
    \/ PerformIteration
    \/ ConnectEdge
    \/ EndIteration
    \/ Return

SpecMST == InitGraph("package", 1..MaxVertices) /\ [][NextMST]_vars

\* A caller that may call run_boruvkas_algorithm again once it has returned.
NextRerun ==
    \/ NextMST
    \/ RunAgain

SpecRerun == InitGraph("package", 1..MaxVertices) /\ [][NextRerun]_vars

-----------------------------------------------------------------------------
(* find_mst_with_boruvkas_algorithm(graph, union_find): the rounds of the    *)
(* algorithm over a UnionFind handed in by the caller.  The function is      *)
(* imported by the package and called by its tests; its rounds are those of  *)
(* the design: BoruvkaMST, phases A and B and the progress check.  The       *)
(* UnionFind is the one of union_find.py.                                    *)

\* Phase A for one edge: the slots of find(u) and find(v) take the edge when
\* empty or holding a strictly heavier one.  The two finds may re-point
\* parents.
injected_update_min_edge(n, p, min_edge, edge) ==
    LET f1 == find(n, p, edge[1])
        f2 == find(n, f1.parent, edge[2])
        m1 == IF min_edge[f1.ret] = None \/ edge[3] < min_edge[f1.ret][3]
              THEN [min_edge EXCEPT ![f1.ret] = edge] ELSE min_edge
        m2 == IF m1[f2.ret] = None \/ edge[3] < m1[f2.ret][3]
              THEN [m1 EXCEPT ![f2.ret] = edge] ELSE m1
    IN  [parent |-> f2.parent,
         min_edge |-> IF f1.ret # f2.ret THEN m2 ELSE min_edge]

\* Phase A: the edges from position i on, in their stored order.
RECURSIVE injected_phase_a(_, _, _, _, _)
injected_phase_a(es, i, n, p, min_edge) ==
    IF i > Len(es) THEN [parent |-> p, min_edge |-> min_edge]
    ELSE LET a == injected_update_min_edge(n, p, min_edge, es[i])
         IN  injected_phase_a(es, i + 1, n, a.parent, a.min_edge)

\* Phase B for one slot: an edge still crossing is united, appended, weighed
\* and counted.
injected_connect_edge(edge, n, p, r, medges, mweight, ncomp) ==
    IF edge = None
    THEN [parent |-> p, rank |-> r, mst_edges |-> medges,
          mst_weight |-> mweight, num_components |-> ncomp]
    ELSE LET f1 == find(n, p, edge[1])
             f2 == find(n, f1.parent, edge[2])
             u  == union(n, f2.parent, r, edge[1], edge[2])
         IN  IF f1.ret # f2.ret
             THEN [parent |-> u.parent, rank |-> u.rank,
                   mst_edges |-> Append(medges, edge),
                   mst_weight |-> mweight + edge[3],
                   num_components |-> ncomp - 1]
             ELSE [parent |-> f2.parent, rank |-> r, mst_edges |-> medges,
                   mst_weight |-> mweight, num_components |-> ncomp]

\* union_find = UnionFind(len(graph.vertices)), then
\* find_mst_with_boruvkas_algorithm(graph, union_find) up to its first round.
FindMstInjected ==
    /\ impl = "package" /\ pc = "build"
    /\ size' = Len(vertices)
    /\ parent' = UnionFindInit(Len(vertices)).parent
    /\ rank' = UnionFindInit(Len(vertices)).rank
    /\ linked' = [i \in 0..(Len(vertices) - 1) |-> i]
    /\ mst_weight' = 0
    /\ mst_edges' = <<>>
    /\ num_components' = Len(vertices)
    /\ round_start' = Len(vertices)
    /\ num_iterations' = 0
    /\ raised' = "none"
    /\ pc' = "loop"
    /\ CallBegins
    /\ UNCHANGED <<impl, vertices, edges, last, component_sizes, slot,
                   vertex_to_component, min_connecting_edge_per_component,
                   scriptvars>>

\* One more round: phase A on fresh slots.
InjectedIteration ==
    /\ impl = "package" /\ pc = "loop"
    /\ num_components > 1
    /\ LET a == injected_phase_a(edges, 1, size, parent,
                                 [c \in 0..(Len(vertices) - 1) |-> None])
       IN  /\ parent' = a.parent
           /\ min_connecting_edge_per_component' = a.min_edge
    /\ num_iterations' = num_iterations + 1
    /\ slot' = 0
    /\ round_start' = num_components
    /\ pc' = "connect"
    /\ UNCHANGED <<graphvars, size, rank, linked, last, mst_weight, mst_edges,
                   component_sizes, num_components, vertex_to_component,
                   calls, scriptvars>>

\* Phase B, one slot.
InjectedConnectEdge ==
    /\ impl = "package" /\ pc = "connect"
    /\ slot < Len(vertices)
    /\ LET e == min_connecting_edge_per_component[slot]
           r == injected_connect_edge(e, size, parent, rank, mst_edges,
                                      mst_weight, num_components)
       IN  /\ parent' = r.parent
           /\ rank' = r.rank
           /\ mst_edges' = r.mst_edges
           /\ mst_weight' = r.mst_weight
           /\ num_components' = r.num_components
           /\ linked' = IF r.num_components # num_components
                        THEN Link(linked, e[1], e[2]) ELSE linked
    /\ slot' = slot + 1
    /\ UNCHANGED <<graphvars, size, last, pc, round_start, calls,
                   component_sizes, vertex_to_component,
                   min_connecting_edge_per_component, num_iterations,
                   scriptvars>>

\* The round is over: with no slot filled and more than one component left
\* the graph is disconnected and the call fails; otherwise the next round.
InjectedEndIteration ==
    /\ impl = "package" /\ pc = "connect"
    /\ slot = Len(vertices)
    /\ IF /\ num_components > 1
          /\ \A c \in DOMAIN min_connecting_edge_per_component :
                 min_connecting_edge_per_component[c] = None
       THEN raised' = "DisconnectedGraph" /\ pc' = "failed"
       ELSE raised' = raised /\ pc' = "loop"
    /\ UNCHANGED <<impl, vertices, edges, mst_weight, mst_edges,
                   component_sizes, num_components, slot, round_start, calls,
                   pkgvars, scriptvars, ufvars>>

\* One component is left: the call returns (mst_weight, mst_edges).
InjectedReturn ==
    /\ impl = "package" /\ pc = "loop"
    /\ ~(num_components > 1)
    /\ pc' = "done"
    /\ CallReturns(mst_weight)
    /\ UNCHANGED <<graphvars, mst_weight, mst_edges, component_sizes,
                   num_components, slot, round_start, pkgvars, scriptvars,
                   ufvars>>

NextInjected ==
    \/ \E vertex_1, vertex_2 \in VertexArgs, weight \in Weights :
           AddEdge(vertex_1, vertex_2, weight)
    \/ FindMstInjected
    \/ InjectedIteration
    \/ InjectedConnectEdge
    \/ InjectedEndIteration
    \/ InjectedReturn

SpecInjected == InitGraph("package", 1..MaxVertices) /\ [][NextInjected]_vars

-----------------------------------------------------------------------------
(* Graph of the script: components kept as a vertex -> parent map *)

\* Graph.merge_components of the script: only the entry of the component
\* identifier itself is re-pointed.
script_merge_components(comps, sizes, vertex1, vertex2) ==
    LET vertex1_component == comps[vertex1]
        vertex2_component == comps[vertex2]
    IN  IF sizes[vertex1_component] < sizes[vertex2_component]
        THEN [components |->
                  [comps EXCEPT ![vertex1_component] = vertex2_component],
              component_sizes |->
                  [sizes EXCEPT ![vertex2_component] =
                       sizes[vertex2_component] + sizes[vertex1_component]]]
        ELSE [components |->
                  [comps EXCEPT ![vertex2_component] = vertex1_component],
              component_sizes |->
                  [sizes EXCEPT ![vertex1_component] =
                       sizes[vertex1_component] + sizes[vertex2_component]]]

\* Graph.update_shortest_edge_per_vertex: the edges from position i on.  Its
\* loop body is that of the package, with -1 for None.
RECURSIVE update_shortest_edge_per_vertex(_, _, _, _)
update_shortest_edge_per_vertex(es, i, comps, min_edge) ==
    IF i > Len(es) THEN min_edge
    ELSE update_shortest_edge_per_vertex(es, i + 1, comps,
                                         update_min_edge(comps, min_edge, es[i]))

\* The body of the for loop of the script's
\* connect_components_with_min_edges, for one vertex.
script_connect_vertex(edge, comps, sizes, medges, mweight, ncomp) ==
    IF edge # None /\ comps[edge[1]] # comps[edge[2]]
    THEN LET m == script_merge_components(comps, sizes, edge[1], edge[2])
         IN  [mst_edges |-> Append(medges, edge),
              mst_weight |-> mweight + edge[3],
              components |-> m.components,
              component_sizes |-> m.component_sizes,
              num_components |-> ncomp - 1]
    ELSE [mst_edges |-> medges, mst_weight |-> mweight,
          components |-> comps,
          component_sizes |-> sizes, num_components |-> ncomp]

\* graph.add_edge(vertex1, vertex2, weight) on a script Graph.
ScriptAddEdge(vertex1, vertex2, weight) ==
    /\ impl = "script" /\ pc = "build"
    /\ Len(edges) < MaxEdges
    /\ LET r == script_add_edge(vertices, edges, vertex1, vertex2, weight)
       IN  /\ edges' = r.edges
           /\ raised' = r.raised
    /\ UNCHANGED <<impl, vertices, runvars, pkgvars, scriptvars, ufvars>>

\* find_mst_with_boruvka up to the while loop (lines 183-190).
FindMstWithBoruvka ==
    /\ impl = "script" /\ pc = "build"
    /\ mst_weight' = 0
    /\ mst_edges' = <<>>
    /\ components' = [v \in VertexSet(vertices) |-> v]
    /\ component_sizes' = [c \in 0..(Len(vertices) - 1) |-> 1]
    /\ num_components' = Len(vertices)
    /\ round_start' = Len(vertices)
    /\ iteration_num' = 1
    /\ raised' = "none"
    /\ pc' = "loop"
    /\ CallBegins
    /\ UNCHANGED <<impl, vertices, edges, slot,
                   min_connecting_edge_per_vertex, pkgvars, ufvars>>

\* One more round: the while test holds, the slots are reset and filled, and
\* connect_components_with_min_edges is entered.
ScriptIteration ==
    /\ impl = "script" /\ pc = "loop"
    /\ num_components > 1
    /\ iteration_num <= MaxRounds
    /\ min_connecting_edge_per_vertex' =
           update_shortest_edge_per_vertex(
               edges, 1, components,
               [c \in 0..(Len(vertices) - 1) |-> None])
    /\ slot' = 0
    /\ round_start' = num_components
    /\ pc' = "connect"
    /\ UNCHANGED <<graphvars, mst_weight, mst_edges, component_sizes,
                   num_components, calls, components, iteration_num, pkgvars,
                   ufvars>>

\* One pass of the for loop over self.vertices.
ScriptConnectVertex ==
    /\ impl = "script" /\ pc = "connect"
    /\ slot < Len(vertices)
    /\ LET r == script_connect_vertex(
                    min_connecting_edge_per_vertex[vertices[slot + 1]],
                    components, component_sizes,
                    mst_edges, mst_weight, num_components)
       IN  /\ mst_edges' = r.mst_edges
           /\ mst_weight' = r.mst_weight
           /\ components' = r.components
           /\ component_sizes' = r.component_sizes
           /\ num_components' = r.num_components
    /\ slot' = slot + 1
    /\ UNCHANGED <<graphvars, pc, round_start, calls,
                   min_connecting_edge_per_vertex, iteration_num, pkgvars,
                   ufvars>>

\* The for loop is exhausted: back to the while test, iteration_num += 1.
ScriptEndIteration ==
    /\ impl = "script" /\ pc = "connect"
    /\ slot = Len(vertices)
    /\ iteration_num' = iteration_num + 1
    /\ pc' = "loop"
    /\ UNCHANGED <<graphvars, mst_weight, mst_edges, component_sizes,
                   num_components, slot, round_start, calls, components,
                   min_connecting_edge_per_vertex, pkgvars, ufvars>>

\* The while test fails: find_mst_with_boruvka returns
\* (mst_weight, mst_edges).
ScriptReturn ==
    /\ impl = "script" /\ pc = "loop"
    /\ ~(num_components > 1)
    /\ pc' = "done"
    /\ CallReturns(mst_weight)
    /\ UNCHANGED <<graphvars, mst_weight, mst_edges, component_sizes,
                   num_components, slot, round_start, pkgvars, scriptvars,
                   ufvars>>

NextScript ==
    \/ \E vertex1, vertex2 \in VertexArgs, weight \in Weights :
           ScriptAddEdge(vertex1, vertex2, weight)
    \/ FindMstWithBoruvka
    \/ ScriptIteration
    \/ ScriptConnectVertex
    \/ ScriptEndIteration
    \/ ScriptReturn

SpecScript == InitGraph("script", 1..MaxVertices) /\ [][NextScript]_vars

\* Building a graph of either class, with no run.
NextGraph ==
    \/ \E vertex_1, vertex_2 \in VertexArgs, weight \in Weights :
           AddEdge(vertex_1, vertex_2, weight)
    \/ \E vertex1, vertex2 \in VertexArgs, weight \in Weights :
           ScriptAddEdge(vertex1, vertex2, weight)

SpecGraph ==
    /\ InitGraph("package", 1..MaxVertices) \/ InitGraph("script", 1..MaxVertices)
    /\ [][NextGraph]_vars

-----------------------------------------------------------------------------
(* Reading a parent array without changing it *)

\* The root of x: the end of its chain of parent pointers.
RECURSIVE Root(_, _)
Root(p, x) == IF p[x] = x THEN x ELSE Root(p, p[x])

\* The number of parent pointers between x and its root.
RECURSIVE Depth(_, _)
Depth(p, x) == IF p[x] = x THEN 0 ELSE 1 + Depth(p, p[x])

\* x and everything above it.
RECURSIVE Ancestors(_, _)
Ancestors(p, x) == IF p[x] = x THEN {x} ELSE {x} \cup Ancestors(p, p[x])

-----------------------------------------------------------------------------
(* Reading a graph *)

\* The endpoints of the edges of es at the positions S.
EdgePairs(es, S) == {<<es[i][1], es[i][2]>> : i \in S}

\* The vertices joined to those of seen by the (undirected) pairs.
RECURSIVE Reach(_, _)
Reach(pairs, seen) ==
    LET more == seen \cup {p[2] : p \in {q \in pairs : q[1] \in seen}}
                     \cup {p[1] : p \in {q \in pairs : q[2] \in seen}}
    IN  IF more = seen THEN seen ELSE Reach(pairs, more)

\* The edges of es at the positions S join all the vertices of vs.
Spans(vs, es, S) == Reach(EdgePairs(es, S), {vs[1]}) = VertexSet(vs)

IsConnectedGraph == Spans(vertices, edges, DOMAIN edges)

\* The sum of the weights of a list of edges.
RECURSIVE SumWeights(_)
SumWeights(es) == IF es = <<>> THEN 0 ELSE es[1][3] + SumWeights(Tail(es))

\* The sum of the weights of the edges at the positions S.
RECURSIVE TreeWeight(_)
TreeWeight(S) ==
    IF S = {} THEN 0
    ELSE LET i == CHOOSE j \in S : TRUE IN edges[i][3] + TreeWeight(S \ {i})

\* The spanning trees of the graph, as sets of positions of the edge list.
SpanningTrees ==
    {S \in SUBSET DOMAIN edges :
        Cardinality(S) = Len(vertices) - 1 /\ Spans(vertices, edges, S)}

\* The least total weight of a spanning tree of a connected graph.
MinSpanningWeight ==
    CHOOSE w \in {TreeWeight(S) : S \in SpanningTrees} :
        \A S \in SpanningTrees : w <= TreeWeight(S)

\* The result is a spanning tree of the graph whose weight, and the weight
\* returned, is the least possible.
IsMinimumSpanningTree ==
    /\ Len(mst_edges) = Len(vertices) - 1
    /\ \A i \in DOMAIN mst_edges : In(edges, mst_edges[i])
    /\ Spans(vertices, mst_edges, DOMAIN mst_edges)
    /\ SumWeights(mst_edges) = MinSpanningWeight
    /\ mst_weight = MinSpanningWeight

\* The least k with 2^k >= n.
RECURSIVE CeilLog2From(_, _, _)
CeilLog2From(n, k, pow) == IF pow >= n THEN k ELSE CeilLog2From(n, k + 1, 2 * pow)

CeilLog2(n) == CeilLog2From(n, 0, 1)

-----------------------------------------------------------------------------
(* Minimum spanning tree properties *)

\* C1: for a connected graph, run_boruvkas_algorithm returns mst_edges that
\* form a spanning tree of the graph and an mst_weight equal to the least
\* total weight of a spanning tree, equal-weight edges included.
ReturnsMinimumSpanningTree ==
    (impl = "package" /\ pc = "done" /\ IsConnectedGraph) => IsMinimumSpanningTree

\* A run has returned on a triangle with two edges of one weight, a graph
\* with several spanning trees.
ReturnedOnTriangleWithTie ==
    /\ impl = "package" /\ pc = "done" /\ IsConnectedGraph
    /\ Len(vertices) = 3 /\ Len(edges) = 3
    /\ Cardinality(SpanningTrees) = 3
    /\ \E i, j \in DOMAIN edges : i # j /\ edges[i][3] = edges[j][3]

\* C2: mst_weight is the sum of the weights in mst_edges after every merge
\* and on return, and for a connected graph the result has |V| - 1 edges.
WeightIsSumOfEdges ==
    impl = "package" =>
        /\ mst_weight = SumWeights(mst_edges)
        /\ (pc = "done" /\ IsConnectedGraph) =>
               Len(mst_edges) = Len(vertices) - 1

\* The for loop of a round has just made the second merge of the run and
\* goes on.
AfterSecondMerge ==
    /\ impl = "package" /\ pc = "connect" /\ slot < Len(vertices)
    /\ Len(mst_edges) = 2
    /\ mst_weight > 2

\* C3 as stated: once a round has finished with no slot filled while
\* num_components > 1, the run has ended with a DisconnectedGraph failure.
NoProgressFails ==
    (/\ impl = "package" /\ pc = "loop" /\ num_iterations >= 1
     /\ num_components > 1
     /\ \A c \in DOMAIN min_connecting_edge_per_component :
            min_connecting_edge_per_component[c] = None)
        => raised = "DisconnectedGraph"

\* C4: on a connected graph the while loop runs at most ceil(log2 |V|)
\* rounds, and every completed round leaves num_components at most half of
\* what it was when the round began.
RoundsHalveComponents ==
    (impl = "package" /\ IsConnectedGraph) =>
        /\ num_iterations <= CeilLog2(Len(vertices))
        /\ (pc \in {"loop", "done"} /\ num_iterations >= 1) =>
               2 * num_components <= round_start

\* A run on four vertices has returned after two rounds.
ReturnedAfterTwoRounds ==
    /\ impl = "package" /\ pc = "done" /\ IsConnectedGraph
    /\ Len(vertices) = 4 /\ num_iterations = 2
    /\ round_start = 2 /\ num_components = 1

\* No edge occurs twice in the list.
NoDuplicates(es) == \A i, j \in DOMAIN es : es[i] = es[j] => i = j

\* C5 as stated: for a connected graph, find_mst_with_boruvka of the script
\* returns |V| - 1 edges that form a spanning tree of least weight;
\* num_components never goes below 1 and no edge is appended twice.
ScriptReturnsMinimumSpanningTree ==
    (impl = "script" /\ pc # "build" /\ IsConnectedGraph) =>
        /\ num_components >= 1
        /\ NoDuplicates(mst_edges) \/ ~NoDuplicates(edges)
        /\ pc = "done" => IsMinimumSpanningTree

\* C6: add_edge raises ValueError exactly when one of its vertices is not a
\* vertex of the graph, and then leaves the edge list as it was; otherwise it
\* appends (v1, v2, w) after the edges already there.  Every stored edge has
\* both endpoints among the vertices.
AddEdgeValidates ==
    /\ \A i \in DOMAIN edges :
          edges[i][1] \in VertexSet(vertices) /\ edges[i][2] \in VertexSet(vertices)
    /\ \A v1, v2 \in VertexArgs, w \in Weights :
          LET r == IF impl = "package"
                   THEN add_edge(vertices, edges, v1, v2, w)
                   ELSE script_add_edge(vertices, edges, v1, v2, w)
              known == v1 \in VertexSet(vertices) /\ v2 \in VertexSet(vertices)
          IN  /\ r.raised = "ValueError" <=> ~known
              /\ r.raised \in {"ValueError", "none"}
              /\ ~known => r.edges = edges
              /\ known =>
                    /\ Len(r.edges) = Len(edges) + 1
                    /\ r.edges[Len(r.edges)] = <<v1, v2, w>>
                    /\ \A i \in DOMAIN edges : r.edges[i] = edges[i]

\* An add_edge has just been refused on a graph that already holds two edges.
AddEdgeRefused ==
    /\ raised = "ValueError"
    /\ Len(edges) = 2

-----------------------------------------------------------------------------
(* Union-find properties *)

\* C7: is_connected(a, b) is True exactly when a and b are joined by the
\* union calls made so far; right after a union(a, b) that returns True,
\* is_connected(a, b) is True and a further union(a, b) returns False and
\* changes no rank.
IsConnectedIffLinked ==
    \A a, b \in Nodes :
        LET c == is_connected(size, parent, a, b)
            u == union(size, parent, rank, a, b)
            again == union(size, u.parent, u.rank, a, b)
        IN  /\ ~c.raised
            /\ c.ret <=> (linked[a] = linked[b])
            /\ u.ret =>
                 /\ is_connected(size, u.parent, a, b).ret
                 /\ ~again.ret
                 /\ again.rank = u.rank

\* A union has just joined two sets into one of three or more elements while
\* another element stays apart.
TransitivelyLinked ==
    /\ last.op = "union" /\ last.ret = 1
    /\ \E a, b, c, d \in Nodes :
          /\ a < b /\ b < c
          /\ linked[a] = linked[b] /\ linked[b] = linked[c]
          /\ linked[d] # linked[a]
          /\ is_connected(size, parent, a, c).ret
          /\ ~is_connected(size, parent, a, d).ret

\* C8: a union of two different sets returns True, keeps the root of the
\* strictly larger tree (on equal sizes always the root of the second
\* argument) as the root of the merged set, gives it the sum of the two sizes
\* as rank, and leaves the root of every element of the other sets unchanged.
UnionBySize ==
    \A a, b \in Nodes :
        LET ra == Root(parent, a)
            rb == Root(parent, b)
            keep == IF rank[ra] > rank[rb] THEN ra ELSE rb
            gone == IF rank[ra] > rank[rb] THEN rb ELSE ra
            u == union(size, parent, rank, a, b)
        IN  ra # rb =>
                /\ u.ret /\ ~u.raised
                /\ rank[gone] <= rank[keep]
                /\ u.parent[gone] = keep
                /\ u.parent[keep] = keep
                /\ u.rank[keep] = rank[ra] + rank[rb]
                /\ \A x \in Nodes :
                      Root(u.parent, x) =
                        IF Root(parent, x) \in {ra, rb} THEN keep
                        ELSE Root(parent, x)

\* A union has just put a smaller tree under a strictly larger one.
LargerTreeKept ==
    /\ last.op = "union" /\ last.ret = 1
    /\ \E r \in Nodes : parent[r] = r /\ rank[r] = 3

\* C9 as stated: a union of two nodes of one set returns False and leaves the
\* parent array and the rank array as they were.
UnionSameSetChangesNothing ==
    \A a, b \in Nodes :
        LET u == union(size, parent, rank, a, b)
        IN  Root(parent, a) = Root(parent, b) =>
                /\ ~u.ret
                /\ u.parent = parent
                /\ u.rank = rank

\* C9 amended: a union of two nodes of one set returns False, leaves the rank
\* array and every element's root as they were, and moves a parent pointer
\* only to an ancestor of its element (path compression by the two finds);
\* the parent array is unchanged when neither node lies deeper than 2.
UnionSameSetKeepsSets ==
    \A a, b \in Nodes :
        LET u == union(size, parent, rank, a, b)
        IN  Root(parent, a) = Root(parent, b) =>
                /\ ~u.ret /\ ~u.raised
                /\ u.rank = rank
                /\ \A x \in Nodes :
                      /\ Root(u.parent, x) = Root(parent, x)
                      /\ u.parent[x] \in Ancestors(parent, x)
                /\ (Depth(parent, a) <= 2 /\ Depth(parent, b) <= 2) =>
                      u.parent = parent

\* A union of two nodes of one set has just returned False in a tree that
\* holds a node three pointers below its root.
UnionFalseInDeepTree ==
    /\ last.op = "union" /\ last.ret = 0
    /\ \E x \in Nodes : Depth(parent, x) = 3

\* C10 as stated: find(x) raises for every x outside [0, size), negative x
\* included.
FindRaisesOutsideRange ==
    [][\A x \in Args(size) :
        (Find(x) /\ (x < 0 \/ x >= size)) => last'.raised]_vars

\* C11: for every x in [0, size), find(x) returns an element that is its own
\* parent after the call, so that find(find(x)) = find(x); the element a find
\* call has just returned is its own parent; and on a freshly constructed
\* UnionFind every element is its own parent with rank 1 and find(x) = x.
FindReturnsRoot ==
    /\ \A x \in Nodes :
          LET f == find(size, parent, x)
              ff == find(size, f.parent, f.ret)
          IN  /\ ~f.raised /\ ~ff.raised
              /\ f.ret \in Nodes
              /\ f.parent[f.ret] = f.ret
              /\ ff.ret = f.ret
              /\ last.op = "init" => (parent[x] = x /\ rank[x] = 1 /\ f.ret = x)
    /\ (last.op = "find" /\ ~last.raised) => parent[last.ret] = last.ret

\* A find has just returned the root of a tree in which some element is two
\* pointers below that root.
FoundRootOfDeepElement ==
    /\ last.op = "find" /\ ~last.raised
    /\ \E x \in Nodes : Depth(parent, x) = 2 /\ Root(parent, x) = last.ret

\* The list es with e put in at position i.
InsertAt(es, i, e) == SubSeq(es, 1, i - 1) \o <<e>> \o SubSeq(es, i, Len(es))

\* C12: for a connected graph, a self-loop put anywhere in the edge list, or
\* a parallel edge (either orientation, anywhere in the list) no lighter
\* than an existing edge between the same two vertices, leaves the returned
\* mst_weight as it was; and no self-loop is ever in mst_edges.
SelfLoopsAndParallelEdgesIgnored ==
    /\ impl = "package" =>
          \A k \in DOMAIN mst_edges : mst_edges[k][1] # mst_edges[k][2]
    /\ (impl = "package" /\ pc = "done" /\ IsConnectedGraph) =>
          /\ run_boruvkas_algorithm(vertices, edges) =
                 [returned |-> TRUE, mst_weight |-> mst_weight,
                  mst_edges |-> mst_edges, num_iterations |-> num_iterations]
          /\ \A i \in 1..(Len(edges) + 1) :
                /\ \A v \in VertexSet(vertices), w \in Weights :
                      LET r == run_boruvkas_algorithm(
                                   vertices, InsertAt(edges, i, <<v, v, w>>))
                      IN  /\ r.returned
                          /\ r.mst_weight = mst_weight
                          /\ \A k \in DOMAIN r.mst_edges :
                                r.mst_edges[k][1] # r.mst_edges[k][2]
                /\ \A j \in DOMAIN edges, w \in Weights :
                      w >= edges[j][3] =>
                        LET u == edges[j][1]
                            v == edges[j][2]
                            r1 == run_boruvkas_algorithm(
                                      vertices, InsertAt(edges, i, <<u, v, w>>))
                            r2 == run_boruvkas_algorithm(
                                      vertices, InsertAt(edges, i, <<v, u, w>>))
                        IN  /\ r1.returned /\ r1.mst_weight = mst_weight
                            /\ r2.returned /\ r2.mst_weight = mst_weight

\* A run has returned on a connected graph that holds a self-loop lighter
\* than an edge of the returned tree and two parallel edges of opposite
\* orientation.
ReturnedWithSelfLoopAndParallelEdge ==
    /\ impl = "package" /\ pc = "done" /\ IsConnectedGraph
    /\ \E i \in DOMAIN edges, k \in DOMAIN mst_edges :
          edges[i][1] = edges[i][2] /\ edges[i][3] < mst_edges[k][3]
    /\ \E i, j \in DOMAIN edges :
          /\ i # j /\ edges[i][1] # edges[i][2]
          /\ edges[i][1] = edges[j][2] /\ edges[i][2] = edges[j][1]

\* C13: every call of run_boruvkas_algorithm on a Graph finds the vertices
\* and the edges as the first call found them and leaves them so, and all
\* the calls that have returned returned one mst_weight; a later call begins
\* with the locals of a first call.
RepeatedCallsAgree ==
    impl = "package" =>
        /\ \A i \in DOMAIN calls :
              /\ calls[i].vertices = vertices /\ calls[i].edges = edges
              /\ \A j \in DOMAIN calls :
                    (calls[i].returned /\ calls[j].returned) =>
                        calls[i].mst_weight = calls[j].mst_weight
        /\ (pc = "loop" /\ num_iterations = 0) =>
              /\ mst_weight = 0 /\ mst_edges = <<>>
              /\ num_components = Len(vertices)
              /\ \A v \in VertexSet(vertices) :
                    vertex_to_component[v] = v /\ component_sizes[v] = 1

\* The second call on a connected graph of four vertices has returned, after
\* two rounds.
SecondCallReturned ==
    /\ impl = "package" /\ pc = "done" /\ IsConnectedGraph
    /\ Len(calls) = 2 /\ calls[2].returned
    /\ Len(vertices) = 4 /\ num_iterations = 2

\* C14: on a connected graph the run over an injected, freshly built
\* UnionFind(|V|) returns the mst_weight and the number of edges that
\* run_boruvkas_algorithm returns with its own component map: the least
\* weight of a spanning tree and |V| - 1 edges.  The components are those of
\* the injected object alone: num_components is its number of roots and the
\* component map of the Graph class is never built.
InjectedUnionFindAgrees ==
    /\ pc # "build" =>
          /\ vertex_to_component = <<>> /\ component_sizes = <<>>
          /\ size = Len(vertices)
          /\ num_components = Cardinality({Root(parent, x) : x \in Nodes})
          /\ \A x, y \in Nodes :
                (Root(parent, x) = Root(parent, y)) <=> (linked[x] = linked[y])
    /\ IsConnectedGraph => pc # "failed"
    /\ (pc = "done" /\ IsConnectedGraph) =>
          LET r == run_boruvkas_algorithm(vertices, edges)
          IN  /\ r.returned
              /\ mst_weight = r.mst_weight
              /\ Len(mst_edges) = Len(r.mst_edges)
              /\ IsMinimumSpanningTree

\* The run over the injected UnionFind has returned on a connected graph of
\* four vertices after two rounds, the sets united into one tree.
InjectedRunReturned ==
    /\ pc = "done" /\ IsConnectedGraph
    /\ size = 4 /\ num_iterations = 2
    /\ \E root \in Nodes : parent[root] = root /\ rank[root] = 4

\* The positions of the edges with one endpoint in component c and the other
\* in a different component.
Leaving(c) ==
    {i \in DOMAIN edges :
        /\ vertex_to_component[edges[i][1]] # vertex_to_component[edges[i][2]]
        /\ c \in {vertex_to_component[edges[i][1]],
                   vertex_to_component[edges[i][2]]}}

\* The first position, in list order, of a lightest edge leaving c.
FirstLightestLeaving(c) ==
    CHOOSE i \in Leaving(c) :
        \A j \in Leaving(c) :
            edges[i][3] < edges[j][3] \/ (edges[i][3] = edges[j][3] /\ i <= j)

\* The identifiers of the current components.
CurrentComponents == {vertex_to_component[v] : v \in DOMAIN vertex_to_component}

\* C15: when phase A of a round ends, the slot of a current component is
\* empty exactly when no edge leaves the component, and otherwise holds the
\* lightest edge leaving it, the first in list order among the lightest; the
\* slot of an identifier no longer in use is empty.
SlotsHoldFirstLightestEdge ==
    (impl = "package" /\ pc = "connect" /\ slot = 0) =>
        \A c \in DOMAIN min_connecting_edge_per_component :
            IF c \in CurrentComponents /\ Leaving(c) # {}
            THEN min_connecting_edge_per_component[c] =
                     edges[FirstLightestLeaving(c)]
            ELSE min_connecting_edge_per_component[c] = None

\* Phase A has just ended with a slot for which two different edges of the
\* same, lightest weight competed, in a graph that also holds an edge
\* leaving no component.
PhaseAEndedWithTie ==
    /\ impl = "package" /\ pc = "connect" /\ slot = 0
    /\ \E c \in CurrentComponents : \E j \in Leaving(c) :
          /\ j # FirstLightestLeaving(c)
          /\ edges[j][3] = edges[FirstLightestLeaving(c)][3]
          /\ edges[j] # edges[FirstLightestLeaving(c)]
    /\ \E i \in DOMAIN edges : edges[i][1] = edges[i][2]

\* The vertices joined to v by the edges of es.
JoinedTo(es, v) == Reach(EdgePairs(es, DOMAIN es), {v})

\* The edges of es close no cycle: each of them joins two of the sets the
\* others leave apart.
IsForest(vs, es) ==
    Cardinality({JoinedTo(es, v) : v \in VertexSet(vs)}) = Len(vs) - Len(es)

\* C16: in phase B a selected edge is appended, weighed and counted exactly
\* when its endpoints are in different components at that moment, merges
\* made earlier in the round included, and nothing changes otherwise; two
\* vertices share a component exactly when the edges of mst_edges join them;
\* an edge held by two slots is appended once, and mst_edges is a forest in
\* every state of a run.
OnlyCrossingEdgesAreAdded ==
    (impl = "package" /\ pc # "build") =>
        /\ IsForest(vertices, mst_edges)
        /\ \A u, v \in VertexSet(vertices) :
              (vertex_to_component[u] = vertex_to_component[v])
                  <=> (v \in JoinedTo(mst_edges, u))
        /\ (pc = "connect" /\ slot < Len(vertices)) =>
              LET e == min_connecting_edge_per_component[slot]
                  r == connect_edge(e, vertex_to_component, component_sizes,
                                    mst_edges, mst_weight, num_components)
                  crossing == /\ e # None
                              /\ e[2] \notin JoinedTo(mst_edges, e[1])
              IN  /\ crossing =>
                        /\ r.mst_edges = Append(mst_edges, e)
                        /\ r.mst_weight = mst_weight + e[3]
                        /\ r.num_components = num_components - 1
                        /\ IsForest(vertices, r.mst_edges)
                  /\ ~crossing =>
                        /\ r.mst_edges = mst_edges
                        /\ r.mst_weight = mst_weight
                        /\ r.num_components = num_components
                        /\ r.vertex_to_component = vertex_to_component
                        /\ r.component_sizes = component_sizes
        /\ \A i, j \in DOMAIN min_connecting_edge_per_component :
              (/\ i < j /\ j < slot /\ pc = "connect"
               /\ min_connecting_edge_per_component[i] # None
               /\ min_connecting_edge_per_component[i] =
                      min_connecting_edge_per_component[j]) =>
                  Cardinality({k \in DOMAIN mst_edges :
                      mst_edges[k] = min_connecting_edge_per_component[i]}) = 1

\* Phase B has just passed over the second of two slots that hold the same
\* edge, the components of both endpoints having selected it, in a second
\* round.
PassedOverEdgeSelectedTwice ==
    /\ impl = "package" /\ pc = "connect" /\ slot > 1 /\ num_iterations = 2
    /\ min_connecting_edge_per_component[slot - 1] # None
    /\ \E i \in 0..(slot - 2) :
          min_connecting_edge_per_component[i] =
              min_connecting_edge_per_component[slot - 1]
    /\ Len(mst_edges) = Len(vertices) - 1

\* The elements that are not roots among those the loop of find stands on
\* when started at c: c, then the grandparent of c, and so on.
RECURSIVE VisitedFrom(_, _)
VisitedFrom(p, c) ==
    IF p[c] = c THEN {} ELSE {c} \cup VisitedFrom(p, p[p[c]])

\* The chain 3 -> 2 -> 1 -> 0.
Chain == [i \in 0..3 |-> IF i = 0 THEN 0 ELSE i - 1]

\* C17: find(x) returns the root of x and changes no root; no element ends
\* farther from its root; every non-root element the loop visits, starting
\* at the parent of x, ends pointing to its former grandparent, and no other
\* pointer changes.  In the chain 3 -> 2 -> 1 -> 0, find(3) returns 0 and
\* leaves parent[2] = 0.
FindCompressesPath ==
    /\ \A x \in Nodes :
          LET f == find(size, parent, x)
              visited == VisitedFrom(parent, parent[x])
          IN  /\ ~f.raised
              /\ f.ret = Root(parent, x)
              /\ \A y \in Nodes :
                    /\ ReachesRoot(f.parent, y, size)
                    /\ Root(f.parent, y) = Root(parent, y)
                    /\ Depth(f.parent, y) <= Depth(parent, y)
                    /\ y \in visited => f.parent[y] = parent[parent[y]]
                    /\ y \notin visited => f.parent[y] = parent[y]
    /\ LET f == find(4, Chain, 3)
       IN  f.ret = 0 /\ f.parent[2] = 0 /\ f.parent[3] = 2 /\ f.parent[1] = 0

\* find(3) has just returned 0 in the four-element structure that the chain
\* 3 -> 2 -> 1 -> 0 becomes: 2 points at the root and 3 still at 2.
FoundInCompressedChain ==
    /\ last.op = "find" /\ ~last.raised /\ last.ret = 0
    /\ size = 4
    /\ parent = find(4, Chain, 3).parent
    /\ parent # Chain

\* The elements that are their own parent.
Roots == {x \in Nodes : parent[x] = x}

\* The sum of the ranks of the elements of S.
RECURSIVE SumOfRanks(_)
SumOfRanks(S) ==
    IF S = {} THEN 0
    ELSE LET x == CHOOSE y \in S : TRUE IN rank[x] + SumOfRanks(S \ {x})

\* C18: after any union, find and is_connected calls the parent array is a
\* forest (the pointers from any element lead to an element that is its own
\* parent within size steps), the rank of every root is the number of
\* elements whose root it is, and the ranks of the roots add up to size.
RankOfRootIsTreeSize ==
    /\ \A x \in Nodes : parent[x] \in Nodes /\ ReachesRoot(parent, x, size)
    /\ \A r \in Roots :
          rank[r] = Cardinality({x \in Nodes : RootWithin(parent, x, size) = r})
    /\ SumOfRanks(Roots) = size

\* A union has just returned True and the five elements stand in a tree of
\* three and a tree of two.
TreesOfThreeAndTwo ==
    /\ last.op = "union" /\ last.ret = 1
    /\ size = 5
    /\ \E r1, r2 \in Roots : rank[r1] = 3 /\ rank[r2] = 2

\* C19: when a round starts, after every merge and on return, num_components
\* is the number of distinct identifiers in vertex_to_component, which is |V|
\* less the number of edges in mst_edges, and component_sizes[c] of every
\* identifier c in use is the number of vertices mapped to c.
ComponentCountsAgree ==
    (impl = "package" /\ pc # "build") =>
        /\ DOMAIN vertex_to_component = VertexSet(vertices)
        /\ num_components = Cardinality(CurrentComponents)
        /\ num_components = Len(vertices) - Len(mst_edges)
        /\ \A c \in CurrentComponents :
              component_sizes[c] =
                  Cardinality({v \in VertexSet(vertices) :
                                  vertex_to_component[v] = c})

\* A merge has just joined two components of two vertices each, in the
\* second round.
MergedTwoPairs ==
    /\ impl = "package" /\ pc = "connect" /\ slot > 0 /\ num_iterations = 2
    /\ num_components = 1 /\ round_start = 2
    /\ \E c \in CurrentComponents : component_sizes[c] = 4
    /\ \E c \in DOMAIN component_sizes : component_sizes[c] = 2

====
